---- MODULE Spec2Model ----
(***************************************************************************)
(* A model of dataloader/data_explorer.py: MITBatteryDataExplorer and      *)
(* main().  The explorer walks the files of data_root/charge and           *)
(* data_root/partial_charge (file -> battery -> cycle), derives one record *)
(* of features per cycle, accumulates the records in battery_data and      *)
(* summary_data, and summarize_dataset computes capacity statistics and    *)
(* writes two CSV tables.                                                  *)
(*                                                                         *)
(* Numbers are IEEE-754 binary64 values, as the arrays scipy.io.loadmat    *)
(* returns are, and the arithmetic of numpy and pandas on them is modelled *)
(* with its rounding (round to nearest, ties to even).  A finite value is  *)
(* (-1)^s * m * 2^e with m a natural number of at most 53 bits, kept odd   *)
(* (or zero) so that every value has one representation.  m is held as a   *)
(* little-endian sequence of 15-bit limbs because the integers of the      *)
(* model checker are 32 bits wide.                                         *)
(***************************************************************************)
EXTENDS Integers, Sequences, FiniteSets, TLC

(***************************************************************************)
(* Natural numbers of arbitrary size: little-endian limbs, no high zero    *)
(* limb, <<>> is zero.                                                     *)
(***************************************************************************)
Base == 2^15

RECURSIVE BNorm(_)
BNorm(a) ==
    IF a = <<>> THEN <<>>
    ELSE IF a[Len(a)] = 0 THEN BNorm(SubSeq(a, 1, Len(a) - 1))
    ELSE a

RECURSIVE BAddC(_, _, _)
BAddC(a, b, c) ==
    IF a = <<>> /\ b = <<>> THEN (IF c = 0 THEN <<>> ELSE <<c>>)
    ELSE LET x == IF a = <<>> THEN 0 ELSE Head(a)
             y == IF b = <<>> THEN 0 ELSE Head(b)
             s == x + y + c
         IN  <<s % Base>> \o BAddC(IF a = <<>> THEN <<>> ELSE Tail(a),
                                   IF b = <<>> THEN <<>> ELSE Tail(b),
                                   s \div Base)

BAdd(a, b) == BAddC(a, b, 0)

RECURSIVE BSubB(_, _, _)
\* a - b - c for a >= b + c, before normalisation
BSubB(a, b, c) ==
    IF a = <<>> THEN <<>>
    ELSE LET y == IF b = <<>> THEN 0 ELSE Head(b)
             d == Head(a) - y - c
         IN  <<d % Base>> \o BSubB(Tail(a),
                                   IF b = <<>> THEN <<>> ELSE Tail(b),
                                   IF d < 0 THEN 1 ELSE 0)

BSub(a, b) == BNorm(BSubB(a, b, 0))

RECURSIVE BCmpAt(_, _, _)
BCmpAt(a, b, i) ==
    IF i = 0 THEN 0
    ELSE IF a[i] < b[i] THEN -1
    ELSE IF a[i] > b[i] THEN 1
    ELSE BCmpAt(a, b, i - 1)

\* -1, 0 or 1 as a < b, a = b, a > b
BCmp(a, b) ==
    IF Len(a) < Len(b) THEN -1
    ELSE IF Len(a) > Len(b) THEN 1
    ELSE BCmpAt(a, b, Len(a))

RECURSIVE BMulSmallC(_, _, _)
BMulSmallC(a, k, c) ==
    IF a = <<>> THEN (IF c = 0 THEN <<>> ELSE <<c>>)
    ELSE LET p == Head(a) * k + c
         IN  <<p % Base>> \o BMulSmallC(Tail(a), k, p \div Base)

\* a * k for 0 <= k < Base
BMulSmall(a, k) == IF k = 0 THEN <<>> ELSE BMulSmallC(a, k, 0)

RECURSIVE BMul(_, _)
BMul(a, b) ==
    IF a = <<>> \/ b = <<>> THEN <<>>
    ELSE LET rest == BMul(a, Tail(b))
         IN  BAdd(BMulSmall(a, Head(b)),
                  IF rest = <<>> THEN <<>> ELSE <<0>> \o rest)

RECURSIVE BDivRec(_, _)
BDivRec(a, n) ==
    IF a = <<>> THEN [q |-> <<>>, r |-> 0]
    ELSE LET hi  == BDivRec(Tail(a), n)
             cur == hi.r * Base + Head(a)
         IN  [q |-> <<cur \div n>> \o hi.q, r |-> cur % n]

\* quotient and remainder of a by n, 0 < n < Base
BDivSmall(a, n) ==
    LET d == BDivRec(a, n) IN [q |-> BNorm(d.q), r |-> d.r]

RECURSIVE LimbBits(_)
LimbBits(x) == IF x = 0 THEN 0 ELSE 1 + LimbBits(x \div 2)

BBitLen(a) == IF a = <<>> THEN 0 ELSE 15 * (Len(a) - 1) + LimbBits(a[Len(a)])

BShl(a, k) ==
    IF a = <<>> THEN <<>>
    ELSE [i \in 1..(k \div 15) |-> 0] \o BMulSmall(a, 2^(k % 15))

BShr(a, k) ==
    IF k \div 15 >= Len(a) THEN <<>>
    ELSE BDivSmall(SubSeq(a, (k \div 15) + 1, Len(a)), 2^(k % 15)).q

BOdd(a) == a # <<>> /\ Head(a) % 2 = 1

\* (2 * root * Base + d) * d: what digit d takes from the remainder
BSqrtTake(root, d) == BMulSmall(BAdd(<<0>> \o BMulSmall(root, 2), <<d>>), d)

RECURSIVE BSqrtDigit(_, _, _, _)
\* the largest digit d in lo..hi with BSqrtTake(root, d) <= rem
BSqrtDigit(root, rem, lo, hi) ==
    IF lo = hi THEN lo
    ELSE LET mid == (lo + hi + 1) \div 2
         IN  IF BCmp(BSqrtTake(root, mid), rem) <= 0
             THEN BSqrtDigit(root, rem, mid, hi)
             ELSE BSqrtDigit(root, rem, lo, mid - 1)

RECURSIVE BSqrtRec(_, _)
\* schoolbook square root, one digit of the root per pair of limbs of a,
\* from the top: [r |-> floor(sqrt(a)), rem |-> a - r^2]
BSqrtRec(a, i) ==
    IF i > Len(a) THEN [r |-> <<>>, rem |-> <<>>]
    ELSE LET up  == BSqrtRec(a, i + 2)
             hi  == IF i + 1 > Len(a) THEN 0 ELSE a[i + 1]
             rem == BNorm(<<a[i], hi>> \o up.rem)
             d   == BSqrtDigit(up.r, rem, 0, Base - 1)
         IN  [r   |-> BNorm(<<d>> \o up.r),
              rem |-> BSub(rem, BSqrtTake(up.r, d))]

BSqrt(a) == BSqrtRec(a, 1)

(***************************************************************************)
(* binary64 values and their arithmetic.                                   *)
(***************************************************************************)
Precision == 53

NaN == [k |-> "nan", s |-> 0, m |-> <<>>, e |-> 0]

Zero == [k |-> "num", s |-> 0, m |-> <<>>, e |-> 0]

RECURSIVE Canon(_, _, _)
\* the one representation of (-1)^s * m * 2^e: m odd, or zero
Canon(s, m, e) ==
    IF m = <<>> THEN Zero
    ELSE IF Head(m) = 0 THEN Canon(s, Tail(m), e + 15)
    ELSE IF Head(m) % 2 = 0 THEN Canon(s, BDivSmall(m, 2).q, e + 1)
    ELSE [k |-> "num", s |-> s, m |-> m, e |-> e]

\* (-1)^s * q * 2^e, one more in the last place when the part cut off
\* compares c = 1 with half a unit (or c = 0, a tie, broken to even)
RoundUp(s, q, e, c, sticky) ==
    Canon(s, IF c > 0 \/ (c = 0 /\ (sticky \/ BOdd(q))) THEN BAdd(q, <<1>>) ELSE q, e)

\* m with its k low bits cut off and rounded
RoundCut(s, m, e, sticky, k) ==
    RoundUp(s, BShr(m, k), e + k,
            BCmp(BSub(m, BShl(BShr(m, k), k)), BShl(<<1>>, k - 1)), sticky)

\* (-1)^s * m * 2^e (plus a nonzero amount below the last bit of m when
\* sticky) rounded to Precision bits, to nearest, ties to even
RoundF(s, m, e, sticky) ==
    IF BBitLen(m) <= Precision THEN Canon(s, m, e)
    ELSE RoundCut(s, m, e, sticky, BBitLen(m) - Precision)

\* the value of an integer of absolute value below Base^2
FromInt(n) ==
    LET a == IF n < 0 THEN -n ELSE n
    IN  Canon(IF n < 0 THEN 1 ELSE 0, BNorm(<<a % Base, a \div Base>>), 0)

IsNaN(a) == a.k = "nan"

FNeg(a) == IF IsNaN(a) \/ a.m = <<>> THEN a ELSE [a EXCEPT !.s = 1 - a.s]

\* (-1)^sa * A * 2^e + (-1)^sb * B * 2^e, rounded
AddAligned(sa, A, sb, B, e) ==
    RoundF(IF sa = sb \/ BCmp(A, B) >= 0 THEN sa ELSE sb,
           IF sa = sb THEN BAdd(A, B)
           ELSE IF BCmp(A, B) >= 0 THEN BSub(A, B) ELSE BSub(B, A),
           e, FALSE)

AddAt(a, b, e) == AddAligned(a.s, BShl(a.m, a.e - e), b.s, BShl(b.m, b.e - e), e)

FAdd(a, b) ==
    IF IsNaN(a) \/ IsNaN(b) THEN NaN
    ELSE IF a.m = <<>> THEN b
    ELSE IF b.m = <<>> THEN a
    ELSE AddAt(a, b, IF a.e < b.e THEN a.e ELSE b.e)

FSub(a, b) == FAdd(a, FNeg(b))

FMul(a, b) ==
    IF IsNaN(a) \/ IsNaN(b) THEN NaN
    ELSE RoundF((a.s + b.s) % 2, BMul(a.m, b.m), a.e + b.e, FALSE)

DivRound(s, d, e) == RoundF(s, d.q, e, d.r # 0)

DivShifted(a, n, sh) == DivRound(a.s, BDivSmall(BShl(a.m, sh), n), a.e - sh)

\* a / n for an integer count n, 0 < n < Base
FDivInt(a, n) ==
    IF IsNaN(a) THEN NaN ELSE DivShifted(a, n, 75 - BBitLen(a.m))

SqrtRound(r, e) == RoundF(0, r.r, e, r.rem # <<>>)

SqrtShifted(m, e, t) == SqrtRound(BSqrt(BShl(m, 2 * t)), (e - 2 * t) \div 2)

\* the square root of m * 2^e, e even
SqrtEven(m, e) == SqrtShifted(m, e, (112 - BBitLen(m)) \div 2)

FSqrt(a) ==
    IF IsNaN(a) \/ a.s = 1 THEN NaN
    ELSE IF a.m = <<>> THEN Zero
    ELSE SqrtEven(BShl(a.m, a.e % 2), a.e - (a.e % 2))

Negative(a) == a.m # <<>> /\ a.s = 1

\* a < b, both numbers
FLess(a, b) == Negative(FSub(a, b))

FLeq(a, b) == a = b \/ FLess(a, b)

(***************************************************************************)
(* numpy on float64 arrays (here: sequences of at most 128 values).        *)
(***************************************************************************)
RECURSIVE SumFrom(_, _, _, _)
\* a[i] + a[i + step] + ... over the indices up to last, added left to right
SumFrom(a, i, step, last) ==
    IF i > last THEN Zero
    ELSE IF i + step > last THEN a[i]
    ELSE FAdd(SumFrom(a, i, step, last - step), a[i + ((last - i) \div step) * step])

\* ((r0 + r1) + (r2 + r3)) + ((r4 + r5) + (r6 + r7))
SumLanes(r) ==
    FAdd(FAdd(FAdd(r[1], r[2]), FAdd(r[3], r[4])),
         FAdd(FAdd(r[5], r[6]), FAdd(r[7], r[8])))

\* pairwise_sum for 8..128 values: eight interleaved partial sums over the
\* first full values, then the rest one by one
SumBlocks(a, full) ==
    SumFrom(<<SumLanes([j \in 1..8 |-> SumFrom(a, j, 8, full)])>>
                \o SubSeq(a, full + 1, Len(a)),
            1, 1, 1 + Len(a) - full)

\* np.add.reduce: pairwise_sum's loop for fewer than 8 values, from 0
NpSum(a) ==
    IF Len(a) < 8 THEN SumFrom(<<Zero>> \o a, 1, 1, 1 + Len(a))
    ELSE SumBlocks(a, Len(a) - (Len(a) % 8))

\* np.mean: the sum divided by the count (nan, with a warning, when empty)
NpMean(a) == IF a = <<>> THEN NaN ELSE FDivInt(NpSum(a), Len(a))

\* a variant of NpMax: the first sample
FirstSample(a) == a[1]

RECURSIVE NpMax(_)
\* np.max of a non-empty array
NpMax(a) ==
    IF Len(a) = 1 THEN a[1]
    ELSE LET r == NpMax(SubSeq(a, 1, Len(a) - 1))
         IN  IF FLess(r, a[Len(a)]) THEN a[Len(a)] ELSE r

RECURSIVE NpMin(_)
\* np.min of a non-empty array
NpMin(a) ==
    IF Len(a) = 1 THEN a[1]
    ELSE LET r == NpMin(SubSeq(a, 1, Len(a) - 1))
         IN  IF FLess(a[Len(a)], r) THEN a[Len(a)] ELSE r

Square(x) == FMul(x, x)

VarAbout(a, arrmean, ddof) ==
    FDivInt(NpSum([i \in 1..Len(a) |-> Square(FSub(a[i], arrmean))]), Len(a) - ddof)

\* np.var with the given ddof: the sum of the squared deviations from the
\* mean, divided by n - ddof
NpVar(a, ddof) == VarAbout(a, NpMean(a), ddof)

\* a variant of NpStd: ddof = 1
NpStdSample(a) == FSqrt(NpVar(a, 1))

\* np.std(a): ddof = 0, the population standard deviation
NpStd(a) == FSqrt(NpVar(a, 0))

(***************************************************************************)
(* pandas groupby aggregations over the float64 values of one group.       *)
(***************************************************************************)
KahanOut(sumx, y, t) == [sumx |-> t, compensation |-> FSub(FSub(t, sumx), y)]

KahanAdd(sumx, y) == KahanOut(sumx, y, FAdd(sumx, y))

KahanStep(p, val) == KahanAdd(p.sumx, FSub(val, p.compensation))

RECURSIVE KahanSum(_, _)
\* group_mean's compensated sum of vals[1..i]: [sumx, compensation]
KahanSum(vals, i) ==
    IF i = 0 THEN [sumx |-> Zero, compensation |-> Zero]
    ELSE KahanStep(KahanSum(vals, i - 1), vals[i])

GroupMean(vals) == FDivInt(KahanSum(vals, Len(vals)).sumx, Len(vals))

WelfordOut(p, val, mean) ==
    [mean |-> mean,
     out  |-> FAdd(p.out, FMul(FSub(val, mean), FSub(val, p.mean)))]

WelfordAdd(p, val, nobs) ==
    WelfordOut(p, val, FAdd(p.mean, FDivInt(FSub(val, p.mean), nobs)))

RECURSIVE Welford(_, _)
\* group_var's running mean and sum of squared deviations over vals[1..i]
Welford(vals, i) ==
    IF i = 0 THEN [mean |-> Zero, out |-> Zero]
    ELSE WelfordAdd(Welford(vals, i - 1), vals[i], i)

\* a variant of GroupVar: 0 where group_var gives nan
GroupVarFilled(vals, ddof) ==
    IF Len(vals) <= ddof THEN Zero
    ELSE FDivInt(Welford(vals, Len(vals)).out, Len(vals) - ddof)

\* group_var: nan when the group has no more than ddof values
GroupVar(vals, ddof) ==
    IF Len(vals) <= ddof THEN NaN
    ELSE FDivInt(Welford(vals, Len(vals)).out, Len(vals) - ddof)

\* a variant of GroupStd: ddof = 0
GroupStdPopulation(vals) ==
    IF vals = <<>> THEN NaN ELSE FSqrt(FDivInt(Welford(vals, Len(vals)).out, Len(vals)))

\* the "std" aggregation: ddof = 1, the sample standard deviation
GroupStd(vals) == FSqrt(GroupVar(vals, 1))

(***************************************************************************)
(* The data set on disk and the explorer.                                  *)
(***************************************************************************)
VARIABLES
    disk,           \* data_root: the two subdirectories and their .mat files
    battery_data,   \* self.battery_data
    summary_data,   \* self.summary_data
    output,         \* output_dir: the two CSV files
    console,        \* what the current run of main() has printed
    pc,             \* where main() is
    run             \* how many times main() has been started

vars == <<disk, battery_data, summary_data, output, console, pc, run>>

\* __init__: a new explorer starts with nothing loaded, whatever an earlier
\* explorer held
InitBatteryData(previous) == << >>

\* a variant of InitSummaryData: summary_data as a list shared by every
\* explorer (a class attribute)
SharedSummaryData(previous) == previous

InitSummaryData(previous) == << >>

\* np.mean or np.max of a signal with no samples: np.max raises ValueError
EmptySignal(cycle) ==
    \/ cycle.relative_time_min = <<>>
    \/ cycle.current_A = <<>>
    \/ cycle.voltage_V = <<>>
    \/ cycle.temperature_C = <<>>

\* cycle_features of the cycle at battery_cycles[0, cycle_idx]
CycleFeatures(cycle, battery_idx, cycle_idx, cycle_type) ==
    [battery_id       |-> battery_idx + 1,
     cycle_type       |-> cycle_type,
     cycle_idx        |-> cycle_idx,
     time_mean        |-> NpMean(cycle.relative_time_min),
     time_max         |-> NpMax(cycle.relative_time_min),
     current_mean     |-> NpMean(cycle.current_A),
     current_max      |-> NpMax(cycle.current_A),
     voltage_mean     |-> NpMean(cycle.voltage_V),
     voltage_max      |-> NpMax(cycle.voltage_V),
     temperature_mean |-> NpMean(cycle.temperature_C),
     temperature_max  |-> NpMax(cycle.temperature_C),
     capacity         |-> cycle.capacity[1]]

\* the inner loop over the cycles of one battery: cycle_data, or the
\* exception of the first cycle that has an empty signal
CycleData(battery_cycles, battery_idx, cycle_type) ==
    IF \E c \in 1..Len(battery_cycles) : EmptySignal(battery_cycles[c])
    THEN [raised |-> TRUE, cycle_data |-> <<>>]
    ELSE [raised |-> FALSE,
          cycle_data |-> [c \in 1..Len(battery_cycles) |->
              CycleFeatures(battery_cycles[c], battery_idx, c - 1, cycle_type)]]

\* the key f"battery_{battery_idx+1}_{cycle_type}", as the pair it is built
\* from
BatteryKey(battery_idx, cycle_type) == <<battery_idx + 1, cycle_type>>

\* self.battery_data[key] = {"cycles": cycle_data, "capacities": capacities}
StoreBattery(data, key, cycle_data) ==
    [k \in DOMAIN data \cup {key} |->
        IF k = key
        THEN [cycles     |-> cycle_data,
              capacities |-> [c \in 1..Len(cycle_data) |-> cycle_data[c].capacity]]
        ELSE data[k]]

\* variants of Extend: the records put in front, and the list replaced
ExtendInFront(summary, cycle_data) == cycle_data \o summary

ExtendByAssignment(summary, cycle_data) == cycle_data

\* self.summary_data.extend(cycle_data)
Extend(summary, cycle_data) == summary \o cycle_data

RECURSIVE LoadBatteries(_, _, _, _)
\* the loop over the batteries of one file, from the b-th on; st is the
\* explorer [battery_data, summary_data, raised]
LoadBatteries(battery, b, cycle_type, st) ==
    IF b > Len(battery) THEN st
    ELSE LET r == CycleData(battery[b], b - 1, cycle_type)
         IN  IF r.raised THEN [st EXCEPT !.raised = TRUE]
             ELSE LoadBatteries(battery, b + 1, cycle_type,
                    [st EXCEPT
                       !.battery_data = StoreBattery(@, BatteryKey(b - 1, cycle_type),
                                                     r.cycle_data),
                       !.summary_data = Extend(@, r.cycle_data)])

RECURSIVE LoadFilesSkipping(_, _, _, _)

\* a variant of LoadFiles: a file that cannot be decoded is skipped
LoadFilesSkipping(files, f, cycle_type, st) ==
    IF f > Len(files) THEN st
    ELSE IF ~files[f].ok THEN LoadFilesSkipping(files, f + 1, cycle_type, st)
    ELSE LET st1 == LoadBatteries(files[f].battery, 1, cycle_type, st)
         IN  IF st1.raised THEN st1
             ELSE LoadFilesSkipping(files, f + 1, cycle_type, st1)

RECURSIVE LoadFiles(_, _, _, _)
\* the loop over the listed files, from the f-th on: loadmat raises on a
\* file it cannot decode or that holds no "battery"
LoadFiles(files, f, cycle_type, st) ==
    IF f > Len(files) THEN st
    ELSE IF ~files[f].ok THEN [st EXCEPT !.raised = TRUE]
    ELSE LET st1 == LoadBatteries(files[f].battery, 1, cycle_type, st)
         IN  IF st1.raised THEN st1
             ELSE LoadFiles(files, f + 1, cycle_type, st1)

\* load_charge_data / load_partial_charge_data on the subdirectory dir:
\* os.listdir raises when the directory is missing
LoadData(dir, cycle_type, data, summary) ==
    LET st == [battery_data |-> data, summary_data |-> summary, raised |-> FALSE]
    IN  IF ~dir.exists THEN [st EXCEPT !.raised = TRUE]
        ELSE LoadFiles(dir.files, 1, cycle_type, st)

\* lambda x: x[0] if isinstance(x, np.ndarray) else x
Flatten(x) == x[1]

\* the columns of summary_df after flattened_capacity is added and capacity
\* dropped
SummaryRow(r) ==
    [battery_id         |-> r.battery_id,
     cycle_type         |-> r.cycle_type,
     cycle_idx          |-> r.cycle_idx,
     time_mean          |-> r.time_mean,
     time_max           |-> r.time_max,
     current_mean       |-> r.current_mean,
     current_max        |-> r.current_max,
     voltage_mean       |-> r.voltage_mean,
     voltage_max        |-> r.voltage_max,
     temperature_mean   |-> r.temperature_mean,
     temperature_max    |-> r.temperature_max,
     flattened_capacity |-> Flatten(r.capacity)]

\* the values of column flattened_capacity in the rows of one cycle_type, in
\* row order
RECURSIVE GroupValues(_, _)
GroupValues(rows, cycle_type) ==
    IF rows = <<>> THEN <<>>
    ELSE LET rest == GroupValues(SubSeq(rows, 1, Len(rows) - 1), cycle_type)
             r    == rows[Len(rows)]
         IN  IF r.cycle_type = cycle_type
             THEN Append(rest, r.flattened_capacity)
             ELSE rest

\* groupby("cycle_type")["flattened_capacity"].agg(["mean","min","max","std"]):
\* one row per key present, the keys sorted
GroupedStats(rows) ==
    LET Row(t) == LET v == GroupValues(rows, t)
                  IN  [cycle_type |-> t,
                       mean |-> GroupMean(v),
                       min  |-> NpMin(v),
                       max  |-> NpMax(v),
                       std  |-> GroupStd(v)]
        has(t) == \E i \in 1..Len(rows) : rows[i].cycle_type = t
    IN  (IF has("charge") THEN <<Row("charge")>> ELSE <<>>)
        \o (IF has("partial_charge") THEN <<Row("partial_charge")>> ELSE <<>>)

SmallInt(s, n) ==
    (IF s = 1 THEN -1 ELSE 1)
    * ((IF Len(n) >= 1 THEN n[1] ELSE 0) + (IF Len(n) >= 2 THEN n[2] * Base ELSE 0))

FmtRound(s, q, c) == SmallInt(s, IF c > 0 \/ (c = 0 /\ BOdd(q)) THEN BAdd(q, <<1>>) ELSE q)

FmtCut(s, x, k) ==
    IF k <= 0 THEN SmallInt(s, BShl(x, -k))
    ELSE FmtRound(s, BShr(x, k), BCmp(BSub(x, BShl(BShr(x, k), k)), BShl(<<1>>, k - 1)))

\* the integer n with format(a, ".2f") = the decimal numeral of n / 100:
\* a * 100 rounded to the nearest integer, ties to even; a a number of small
\* size
Fmt2(a) == FmtCut(a.s, BMulSmall(a.m, 100), -a.e)

\* summarize_dataset: what it prints and writes.  pd.DataFrame builds
\* summary_df from self.summary_data, which stays as it is; an empty
\* summary_data gives a frame with no "capacity" column (KeyError)
Summarize(data, summary) ==
    IF summary = <<>> THEN [raised |-> TRUE]
    ELSE LET summary_df     == [i \in 1..Len(summary) |-> SummaryRow(summary[i])]
             all_capacities == [i \in 1..Len(summary) |-> Flatten(summary[i].capacity)]
         IN  [raised  |-> FALSE,
              printed |-> [total_batteries |-> Cardinality(DOMAIN data),
                           total_cycles    |-> Len(summary),
                           mean            |-> Fmt2(NpMean(all_capacities)),
                           min             |-> Fmt2(NpMin(all_capacities)),
                           max             |-> Fmt2(NpMax(all_capacities)),
                           std             |-> Fmt2(NpStd(all_capacities))],
              battery_cycle_summary      |-> summary_df,
              battery_cycle_type_summary |-> GroupedStats(summary_df)]

(***************************************************************************)
(* main(): construct, load_charge_data, load_partial_charge_data,          *)
(* summarize_dataset.  An exception ends the run.  The program can be run  *)
(* again on the same directories.                                          *)
(***************************************************************************)
MaxRuns == 2

NoFile == [written |-> FALSE, rows |-> <<>>]

\* the end of a load routine with the explorer as r: the next call of
\* main(), or the exception
Loaded(r, label, next) ==
    /\ battery_data' = r.battery_data
    /\ summary_data' = r.summary_data
    /\ pc' = IF r.raised THEN "raised" ELSE next
    /\ console' = IF r.raised THEN console
                  ELSE Append(console, [loaded |-> label,
                                        n |-> Cardinality(DOMAIN r.battery_data)])

load_charge_data ==
    /\ pc = "load_charge_data"
    /\ Loaded(LoadData(disk.charge, "charge", battery_data, summary_data),
              "charge", "load_partial_charge_data")
    /\ UNCHANGED <<disk, output, run>>

load_partial_charge_data ==
    /\ pc = "load_partial_charge_data"
    /\ Loaded(LoadData(disk.partial_charge, "partial_charge", battery_data, summary_data),
              "partial_charge", "summarize_dataset")
    /\ UNCHANGED <<disk, output, run>>

\* the end of summarize_dataset with r what it computed
Summarized(r) ==
    IF r.raised
    THEN /\ pc' = "raised"
         /\ UNCHANGED <<output, console>>
    ELSE /\ pc' = "done"
         /\ console' = Append(console, r.printed)
         /\ output' = [battery_cycle_summary |->
                          [written |-> TRUE, rows |-> r.battery_cycle_summary],
                       battery_cycle_type_summary |->
                          [written |-> TRUE, rows |-> r.battery_cycle_type_summary]]

summarize_dataset ==
    /\ pc = "summarize_dataset"
    /\ Summarized(Summarize(battery_data, summary_data))
    /\ UNCHANGED <<disk, battery_data, summary_data, run>>

\* the program is started again: main() constructs a new explorer
main ==
    /\ pc \in {"done", "raised"}
    /\ run < MaxRuns
    /\ run' = run + 1
    /\ pc' = "load_charge_data"
    /\ battery_data' = InitBatteryData(battery_data)
    /\ summary_data' = InitSummaryData(summary_data)
    /\ console' = <<>>
    /\ UNCHANGED <<disk, output>>

Next == load_charge_data \/ load_partial_charge_data \/ summarize_dataset \/ main

\* the state main() is in after constructing the explorer, on data set d
Start(d) ==
    /\ disk = d
    /\ battery_data = InitBatteryData(<< >>)
    /\ summary_data = InitSummaryData(<< >>)
    /\ output = [battery_cycle_summary |-> NoFile, battery_cycle_type_summary |-> NoFile]
    /\ console = <<>>
    /\ pc = "load_charge_data"
    /\ run = 1


(***************************************************************************)
(* Data sets.  A .mat file holds mat["battery"], one row of batteries;     *)
(* battery[0, b][0] is one row of cycles; a cycle has four sample arrays   *)
(* and a 1x1 capacity.                                                     *)
(***************************************************************************)
Cycle(time, current, voltage, temperature, capacity) ==
    [relative_time_min |-> time,
     current_A         |-> current,
     voltage_V         |-> voltage,
     temperature_C     |-> temperature,
     capacity          |-> << <<capacity>> >>]

Dirs == {"charge", "partial_charge"}

\* Data sets by shape.  A subdirectory of n cycles is laid out by n marks:
\* each cycle starts a new file, a new battery of the current file, or
\* follows in the current battery.  Every cycle's values tell where it is.
MaxCycles == 5

Marks == {"file", "battery", "cycle"}

Layouts(n) == {t \in [1..n -> Marks] : n = 0 \/ t[1] = "file"}

RECURSIVE Counts(_, _)
\* the cycle counts [file][battery] of the first i marks
Counts(t, i) ==
    IF i = 0 THEN <<>>
    ELSE LET p == Counts(t, i - 1)
             f == Len(p)
         IN  IF t[i] = "file" THEN Append(p, <<1>>)
             ELSE IF t[i] = "battery" THEN [p EXCEPT ![f] = Append(@, 1)]
             ELSE [p EXCEPT ![f][Len(p[f])] = @ + 1]

NoFault == [kind |-> "none", dir |-> "charge", f |-> 0, b |-> 0, c |-> 0]

\* one thing wrong with a data set of the given shapes, or nothing
Faults(counts) ==
    {NoFault}
    \cup {[kind |-> "missing", dir |-> d, f |-> 0, b |-> 0, c |-> 0] : d \in Dirs}
    \cup UNION {{[kind |-> "corrupt", dir |-> d, f |-> f, b |-> 0, c |-> 0] :
                    f \in 1..Len(counts[d])} : d \in Dirs}
    \cup UNION {UNION {UNION {{[kind |-> "empty", dir |-> d, f |-> f, b |-> b, c |-> c] :
                    c \in 1..counts[d][f][b]} :
                    b \in 1..Len(counts[d][f])} :
                    f \in 1..Len(counts[d])} : d \in Dirs}

PlacedCycle(d, f, b, c, fault) ==
    LET v == FromInt((IF d = "charge" THEN 1000 ELSE 2000) + 100 * f + 10 * b + c)
        w == FromInt(-c)
    IN  Cycle(<<w, v>>, <<v>>,
              IF fault = [kind |-> "empty", dir |-> d, f |-> f, b |-> b, c |-> c]
              THEN <<>> ELSE <<v, w>>,
              <<w>>, v)

ShapedDir(d, counts, fault) ==
    [exists |-> fault # [kind |-> "missing", dir |-> d, f |-> 0, b |-> 0, c |-> 0],
     files  |-> [f \in 1..Len(counts) |->
        [ok      |-> fault # [kind |-> "corrupt", dir |-> d, f |-> f, b |-> 0, c |-> 0],
         battery |-> [b \in 1..Len(counts[f]) |->
                        [c \in 1..counts[f][b] |-> PlacedCycle(d, f, b, c, fault)]]]]]

ShapedDisks ==
    UNION {UNION {
        LET counts == [charge |-> Counts(tc, Len(tc)), partial_charge |-> Counts(tp, Len(tp))]
        IN  {[d \in Dirs |-> ShapedDir(d, counts[d], fault)] : fault \in Faults(counts)}
        : tp \in UNION {Layouts(n) : n \in 0..(MaxCycles - Len(tc))}}
        : tc \in UNION {Layouts(n) : n \in 0..MaxCycles}}

Init == \E d \in ShapedDisks : Start(d)

Spec == Init /\ [][Next]_vars

\* Data sets by capacity: one file of one battery in each subdirectory, the
\* capacities of its cycles drawn from a few values.
MaxStatCycles == 3

ChargeCapacities == {10, 20, 30}

PartialCapacities == {5, 20}

OneBatteryDir(cycles) ==
    [exists |-> TRUE, files |-> <<[ok |-> TRUE, battery |-> <<cycles>>]>>]

CapacityCycles(caps) ==
    [c \in 1..Len(caps) |->
        Cycle(<<FromInt(c)>>, <<FromInt(1)>>, <<FromInt(4)>>, <<FromInt(25)>>,
              FromInt(caps[c]))]

CapacityDisks ==
    {[charge         |-> OneBatteryDir(CapacityCycles(cc)),
      partial_charge |-> OneBatteryDir(CapacityCycles(pc0))] :
        cc  \in UNION {[1..n -> ChargeCapacities] : n \in 0..MaxStatCycles},
        pc0 \in UNION {[1..n -> PartialCapacities] : n \in 0..MaxStatCycles}}

InitStats == \E d \in CapacityDisks : Start(d)

SpecStats == InitStats /\ [][Next]_vars

\* Data sets by signal: one cycle in each subdirectory, its sample arrays
\* drawn from a few values, 0.1 among them.
MaxSamples == 3

Tenth == [k |-> "num", s |-> 0, m |-> <<19661, 6553, 13107, 102>>, e |-> -55]

Samples == {Tenth, FromInt(-2), FromInt(3)}

Signals(n) == UNION {[1..i -> Samples] : i \in 0..n}

Reverse(a) == [i \in 1..Len(a) |-> a[Len(a) + 1 - i]]

SignalDisks ==
    {[charge         |-> OneBatteryDir(<<Cycle(s1, s2, Reverse(s1), s2, FromInt(10))>>),
      partial_charge |-> OneBatteryDir(<<Cycle(s2, Reverse(s1), s1, s1, FromInt(5))>>)] :
        s1 \in Signals(MaxSamples), s2 \in Signals(1)}

InitSignals == \E d \in SignalDisks : Start(d)

SpecSignals == InitSignals /\ [][Next]_vars

(***************************************************************************)
(* Properties.                                                             *)
(***************************************************************************)
IsPrefix(a, b) == Len(a) <= Len(b) /\ SubSeq(b, 1, Len(a)) = a

\* the records of one cycle_type, in the order of summary_data
RecordsOf(cycle_type) == SelectSeq(summary_data, LAMBDA r : r.cycle_type = cycle_type)

TypesLoaded == {summary_data[i].cycle_type : i \in 1..Len(summary_data)}

\* every place <<file, battery, cycle>> of a file list, counted from 1
Places(files) ==
    UNION {UNION {{<<f, b, c>> : c \in 1..Len(files[f].battery[b])} :
                    b \in 1..Len(files[f].battery)} :
                    f \in 1..Len(files)}

\* the order of the loops: by file, then by battery, then by cycle; a file
\* comes before the batteries in it
Precedes(p, q) ==
    \/ p[1] < q[1]
    \/ p[1] = q[1] /\ Len(p) = 1 /\ Len(q) >= 2
    \/ p[1] = q[1] /\ Len(p) >= 2 /\ Len(q) >= 2 /\ p[2] < q[2]
    \/ p[1] = q[1] /\ Len(p) >= 3 /\ Len(q) >= 3 /\ p[2] = q[2] /\ p[3] < q[3]

\* a data set with nothing wrong: both subdirectories exist and hold at
\* least one file, every file decodes, every signal has samples
ValidDisk ==
    \A d \in Dirs :
        /\ disk[d].exists
        /\ Len(disk[d].files) >= 1
        /\ \A f \in 1..Len(disk[d].files) : disk[d].files[f].ok
        /\ \A p \in Places(disk[d].files) :
               ~EmptySignal(disk[d].files[p[1]].battery[p[2]][p[3]])

\* the sum over the groups of battery_data of their cycle counts
GroupCycleTotal ==
    Cardinality(UNION {{<<k, i>> : i \in 1..Len(battery_data[k].cycles)} :
                          k \in DOMAIN battery_data})

\* C1: on a valid data set, after any of the loads, the length of
\* summary_data is the sum over the groups of battery_data of their cycle
\* counts.
C1_LengthIsGroupTotal ==
    (ValidDisk /\ pc # "raised") => Len(summary_data) = GroupCycleTotal

\* the segment seg holds one record per place of files, the record of place
\* p where the places before p in file, then battery, then cycle order put it
InSourceOrder(files, cycle_type, seg) ==
    /\ Len(seg) = Cardinality(Places(files))
    /\ \A p \in Places(files) :
          LET r == seg[1 + Cardinality({q \in Places(files) : Precedes(q, p)})]
          IN  /\ r.cycle_type = cycle_type
              /\ r.battery_id = p[2]
              /\ r.cycle_idx = p[3] - 1
              /\ r.capacity = files[p[1]].battery[p[2]][p[3]].capacity[1]

\* C2: each load appends its records in file, then battery, then cycle
\* order, and the rows summarize_dataset writes are the records of
\* summary_data in that same order.
C2_FileBatteryCycleOrder ==
    LET n == Cardinality(Places(disk.charge.files))
        rows == output.battery_cycle_summary.rows
    IN  /\ pc = "load_partial_charge_data" =>
              InSourceOrder(disk.charge.files, "charge", summary_data)
        /\ pc \in {"summarize_dataset", "done"} =>
              /\ n <= Len(summary_data)
              /\ InSourceOrder(disk.charge.files, "charge", SubSeq(summary_data, 1, n))
              /\ InSourceOrder(disk.partial_charge.files, "partial_charge",
                               SubSeq(summary_data, n + 1, Len(summary_data)))
        /\ pc = "done" =>
              /\ Len(rows) = Len(summary_data)
              /\ \A i \in 1..Len(rows) :
                    /\ rows[i].cycle_type = summary_data[i].cycle_type
                    /\ rows[i].battery_id = summary_data[i].battery_id
                    /\ rows[i].cycle_idx = summary_data[i].cycle_idx
                    /\ rows[i].flattened_capacity = summary_data[i].capacity[1]

\* a run that finished on a data set whose charge directory has two files,
\* a file of two batteries and a battery of two cycles
C2_Witness ==
    /\ pc = "done"
    /\ Len(disk.charge.files) >= 2
    /\ \E f \in 1..Len(disk.charge.files) : Len(disk.charge.files[f].battery) >= 2
    /\ \E p \in Places(disk.charge.files) : p[3] >= 2

\* C3: on a valid data set no two records of summary_data have the same
\* battery_id, cycle_type and cycle_idx: within a group cycle_idx increases
\* in the order of the source.
C3_CycleIdxUnique ==
    ValidDisk =>
        \A i, j \in 1..Len(summary_data) :
            (/\ i < j
             /\ summary_data[i].battery_id = summary_data[j].battery_id
             /\ summary_data[i].cycle_type = summary_data[j].cycle_type)
            => summary_data[i].cycle_idx < summary_data[j].cycle_idx

\* where a load of dir raises: <<f>> for a file that does not decode, <<f, b>>
\* for a battery with a cycle that has an empty signal
FaultPoints(dir) ==
    {<<f>> : f \in {g \in 1..Len(dir.files) : ~dir.files[g].ok}}
    \cup {<<p[1], p[2]>> : p \in {q \in Places(dir.files) :
                                EmptySignal(dir.files[q[1]].battery[q[2]][q[3]])}}

Faulty(dir) == ~dir.exists \/ FaultPoints(dir) # {}

FirstFault(dir) ==
    CHOOSE p \in FaultPoints(dir) : \A q \in FaultPoints(dir) : p = q \/ Precedes(p, q)

\* how many cycles lie in the batteries before the place where the load of
\* dir raises
CyclesBeforeFault(dir) ==
    IF ~dir.exists THEN 0
    ELSE Cardinality({p \in Places(dir.files) : Precedes(<<p[1], p[2]>>, FirstFault(dir))})

\* C4: a failure while loading ends the run: summarize_dataset is not
\* reached and no CSV is written, and nothing after the failing file or
\* battery has been processed.
C4_FailureIsFatal ==
    /\ (Faulty(disk.charge) \/ Faulty(disk.partial_charge)) =>
          /\ pc \notin {"summarize_dataset", "done"}
          /\ ~output.battery_cycle_summary.written
          /\ ~output.battery_cycle_type_summary.written
    /\ pc = "raised" =>
          IF Faulty(disk.charge)
          THEN /\ Len(summary_data) = CyclesBeforeFault(disk.charge)
               /\ TypesLoaded \subseteq {"charge"}
          ELSE IF Faulty(disk.partial_charge)
          THEN /\ Len(RecordsOf("charge")) = Cardinality(Places(disk.charge.files))
               /\ Len(RecordsOf("partial_charge")) = CyclesBeforeFault(disk.partial_charge)
          ELSE summary_data = <<>>

\* a load has raised after it had loaded a battery, with a file left that it
\* never opened
C4_Witness ==
    /\ pc = "raised"
    /\ summary_data # <<>>
    /\ disk.charge.exists
    /\ FaultPoints(disk.charge) # {}
    /\ FirstFault(disk.charge)[1] < Len(disk.charge.files)

\* C8: a second run of main() on the same directories writes what the first
\* run wrote, row for row.
C8_RerunWritesTheSame ==
    [][(run > 1 /\ pc = "summarize_dataset" /\ pc' = "done")
          => (/\ output.battery_cycle_summary.written
              /\ output.battery_cycle_type_summary.written
              /\ output' = output)]_vars

\* the second run has finished and written several rows
C8_Witness ==
    /\ run = 2
    /\ pc = "done"
    /\ Len(output.battery_cycle_summary.rows) >= 2
    /\ Len(output.battery_cycle_type_summary.rows) = 2

\* C10: a load only appends to summary_data, and summarize_dataset leaves
\* summary_data and battery_data as they are.
C10_AppendOnly ==
    [][/\ pc \in {"load_charge_data", "load_partial_charge_data"}
             => IsPrefix(summary_data, summary_data')
       /\ pc = "summarize_dataset"
             => (summary_data' = summary_data /\ battery_data' = battery_data)]_vars

\* both loads have appended and summarize_dataset has run
C10_Witness ==
    /\ pc = "done"
    /\ Len(RecordsOf("charge")) >= 2
    /\ Len(RecordsOf("partial_charge")) >= 1

(***************************************************************************)
(* Capacity statistics, stated over the integers the capacities are.       *)
(***************************************************************************)
\* the integer a float of integral value is
IntOf(a) == SmallInt(a.s, BShl(a.m, a.e))

\* the capacities of the records of summary_data that satisfy keep
Capacities(keep(_)) ==
    LET recs == SelectSeq(summary_data, keep)
    IN  [i \in 1..Len(recs) |-> IntOf(recs[i].capacity[1])]

CapacitiesOf(cycle_type) == Capacities(LAMBDA r : r.cycle_type = cycle_type)

AllCapacities == Capacities(LAMBDA r : TRUE)

RECURSIVE IntSum(_)
IntSum(c) == IF c = <<>> THEN 0 ELSE Head(c) + IntSum(Tail(c))

IntSumSq(c) == IntSum([i \in 1..Len(c) |-> c[i] * c[i]])

Least(c) == CHOOSE x \in {c[i] : i \in 1..Len(c)} : \A i \in 1..Len(c) : x <= c[i]

Greatest(c) == CHOOSE x \in {c[i] : i \in 1..Len(c)} : \A i \in 1..Len(c) : x >= c[i]

\* the arithmetic mean of c, rounded once
MeanOf(c) == FDivInt(FromInt(IntSum(c)), Len(c))

\* the standard deviation of c with divisor Len(c) - ddof:
\* sqrt((n * sum c^2 - (sum c)^2) / (n * (n - ddof)))
StdOf(c, ddof) ==
    FSqrt(FDivInt(FromInt(Len(c) * IntSumSq(c) - IntSum(c) * IntSum(c)),
                  Len(c) * (Len(c) - ddof)))

FAbs(a) == [a EXCEPT !.s = 0]

Tolerance == [k |-> "num", s |-> 0, m |-> <<1>>, e |-> -40]

\* a is b up to a relative error of 2^-40
Close(a, b) == ~IsNaN(a) /\ FLeq(FAbs(FSub(a, b)), FMul(FAbs(b), Tolerance))

\* row holds the mean, min, max and sample standard deviation of c
IsGroupRow(row, c) ==
    /\ row.mean = MeanOf(c)
    /\ row.min = FromInt(Least(c))
    /\ row.max = FromInt(Greatest(c))
    /\ IF Len(c) = 1 THEN IsNaN(row.std) ELSE Close(row.std, StdOf(c, 1))

\* C5: the grouped table has one row per cycle_type present in
\* summary_data, holding the mean, min, max and sample (divide by N - 1)
\* standard deviation of the capacities of that cycle_type; capacities
\* 10, 20, 30 under charge and 5, 5, 5 under partial_charge give the rows
\* charge: 20, 10, 30, 10 and partial_charge: 5, 5, 5, 0.
C5_GroupedStatistics ==
    pc = "done" =>
        LET rows == output.battery_cycle_type_summary.rows
        IN  /\ Len(rows) = Cardinality(TypesLoaded)
            /\ \A i, j \in 1..Len(rows) : i < j => rows[i].cycle_type # rows[j].cycle_type
            /\ \A i \in 1..Len(rows) :
                  /\ rows[i].cycle_type \in TypesLoaded
                  /\ IsGroupRow(rows[i], CapacitiesOf(rows[i].cycle_type))
            /\ (CapacitiesOf("charge") = <<10, 20, 30>>
                /\ CapacitiesOf("partial_charge") = <<5, 5, 5>>)
               => rows = <<[cycle_type |-> "charge", mean |-> FromInt(20),
                            min |-> FromInt(10), max |-> FromInt(30), std |-> FromInt(10)],
                           [cycle_type |-> "partial_charge", mean |-> FromInt(5),
                            min |-> FromInt(5), max |-> FromInt(5), std |-> Zero]>>

\* summarize_dataset has run on capacities 10, 20, 30 and 5, 5, 5
C5_Witness ==
    /\ pc = "done"
    /\ CapacitiesOf("charge") = <<10, 20, 30>>
    /\ CapacitiesOf("partial_charge") = <<5, 5, 5>>
    /\ Len(output.battery_cycle_type_summary.rows) = 2

\* C6: the global statistics summarize_dataset prints, to two decimals, are
\* the mean, min, max and population (divide by N) standard deviation of
\* the capacities of all records whatever their cycle_type; capacities
\* 10, 20, 30, 5, 5, 5 give mean 12.50, min 5.00 and max 30.00.
C6_GlobalStatistics ==
    pc = "done" =>
        LET printed == console[Len(console)]
        IN  /\ printed.total_cycles = Len(summary_data)
            /\ printed.mean = Fmt2(MeanOf(AllCapacities))
            /\ printed.min = 100 * Least(AllCapacities)
            /\ printed.max = 100 * Greatest(AllCapacities)
            /\ printed.std = Fmt2(StdOf(AllCapacities, 0))
            /\ AllCapacities = <<10, 20, 30, 5, 5, 5>>
               => (printed.mean = 1250 /\ printed.min = 500 /\ printed.max = 3000)

\* summarize_dataset has printed the statistics of 10, 20, 30, 5, 5, 5
C6_Witness ==
    /\ pc = "done"
    /\ AllCapacities = <<10, 20, 30, 5, 5, 5>>
    /\ console[Len(console)].std > 0

\* C9: with a cycle_type of exactly one record summarize_dataset does not
\* raise: it writes both CSVs, and the row of that cycle_type has a
\* standard deviation of NaN and mean, min and max the record's capacity.
C9_SingleRecordGroup ==
    \A t \in TypesLoaded :
        Len(CapacitiesOf(t)) = 1 =>
            /\ pc # "raised"
            /\ pc = "done" =>
                  /\ output.battery_cycle_summary.written
                  /\ output.battery_cycle_type_summary.written
                  /\ \E i \in 1..Len(output.battery_cycle_type_summary.rows) :
                        LET row == output.battery_cycle_type_summary.rows[i]
                        IN  /\ row.cycle_type = t
                            /\ IsNaN(row.std)
                            /\ row.mean = FromInt(CapacitiesOf(t)[1])
                            /\ row.min = row.mean
                            /\ row.max = row.mean

\* summarize_dataset has run with one charge record and several
\* partial_charge records
C9_Witness ==
    /\ pc = "done"
    /\ Len(CapacitiesOf("charge")) = 1
    /\ Len(CapacitiesOf("partial_charge")) >= 2
    /\ output.battery_cycle_type_summary.written

(***************************************************************************)
(* Mean and max of a signal.                                               *)
(***************************************************************************)
\* a + b as a real number: the sum before it is rounded
ExactAligned(sa, A, sb, B, e) ==
    Canon(IF sa = sb \/ BCmp(A, B) >= 0 THEN sa ELSE sb,
          IF sa = sb THEN BAdd(A, B)
          ELSE IF BCmp(A, B) >= 0 THEN BSub(A, B) ELSE BSub(B, A),
          e)

ExactAt(a, b, e) == ExactAligned(a.s, BShl(a.m, a.e - e), b.s, BShl(b.m, b.e - e), e)

ExactAdd(a, b) ==
    IF a.m = <<>> THEN b
    ELSE IF b.m = <<>> THEN a
    ELSE ExactAt(a, b, IF a.e < b.e THEN a.e ELSE b.e)

RECURSIVE ExactSum(_, _)
\* the sum of the first n samples of a as a real number
ExactSum(a, n) == IF n = 0 THEN Zero ELSE ExactAdd(ExactSum(a, n - 1), a[n])

\* the sum np.mean divides is the sum of the samples: no addition rounded
SumIsExact(a) == NpSum(a) = ExactSum(a, Len(a))

\* the cycle a record was computed from: each subdirectory of these data
\* sets holds one file of one battery
SourceCycle(r) == disk[r.cycle_type].files[1].battery[r.battery_id][r.cycle_idx + 1]

\* C7: for every record, the max of each of the four signals is at least
\* its mean.
C7_MaxAtLeastMean ==
    \A i \in 1..Len(summary_data) :
        LET r == summary_data[i]
        IN  /\ FLeq(r.time_mean, r.time_max)
            /\ FLeq(r.current_mean, r.current_max)
            /\ FLeq(r.voltage_mean, r.voltage_max)
            /\ FLeq(r.temperature_mean, r.temperature_max)

\* C7: for every record, the max of a signal is at least its mean when the
\* sum of the signal's samples was accumulated without a rounding error.
C7_MaxAtLeastMeanOfExactSum ==
    \A i \in 1..Len(summary_data) :
        LET r == summary_data[i]
            c == SourceCycle(r)
        IN  /\ SumIsExact(c.relative_time_min) => FLeq(r.time_mean, r.time_max)
            /\ SumIsExact(c.current_A) => FLeq(r.current_mean, r.current_max)
            /\ SumIsExact(c.voltage_V) => FLeq(r.voltage_mean, r.voltage_max)
            /\ SumIsExact(c.temperature_C) => FLeq(r.temperature_mean, r.temperature_max)

\* a record of a signal of several samples, not all equal, whose sum was
\* accumulated exactly
C7_Witness ==
    \E i \in 1..Len(summary_data) :
        LET r == summary_data[i]
            c == SourceCycle(r)
        IN  /\ Len(c.relative_time_min) >= 2
            /\ SumIsExact(c.relative_time_min)
            /\ FLess(r.time_mean, r.time_max)
====
